---- MODULE Spec2Model ----
(***************************************************************************)
(* Model of data.cpp: the AVL tree, the adjacency-matrix Graph with its    *)
(* traversals (bfs, dfs), dijkstra and primMST, and the Queue, Stack and   *)
(* MinHeap they are built on.                                              *)
(*                                                                         *)
(* Three specifications share the variables:                               *)
(*   Spec      - an AVL tree under insert/remove calls;                    *)
(*   SpecGraph - Graph objects under construct, addEdge, removeEdge,       *)
(*               setDirected, clear and removeVertex, with the handles a   *)
(*               caller holds on them;                                     *)
(*   SpecAlg   - one query (bfs, dfs, dijkstra, primMST, removeVertex) on  *)
(*               a graph, one loop iteration per step.                     *)
(***************************************************************************)
EXTENDS Integers, Sequences, FiniteSets

VARIABLES
    root,       \* AVL::root, the tree as a nested record (NULL = no node)
    keys,       \* history: the keys inserted and not removed since
    avlOp,      \* history: the last AVL call, [op, key]
    prevRoot,   \* history: the tree before the last AVL call
    objs,       \* the Graph objects allocated so far: [n, adjMatrix, isDirected]
    handles,    \* the Graph pointers the caller holds: indices into objs
    lastOp,     \* history: the last Graph call, [op, h, v]; after setDirected
                \* also before, the receiver as it was when called
    nOps,       \* history: the number of Graph calls made so far
    pc,         \* position of the running query: "idle", its name, or "done"
    start,      \* the query's argument
    visited,    \* bool* visited / inMST
    dist,       \* int* dist / key
    parent,     \* int* parent (primMST)
    work,       \* Queue q (front first) / Stack s (top first)
    heap,       \* MinHeap pq: heap[1..size]
    first,      \* bool first: nothing appended to the result yet
    result,     \* the string being built and returned, as a sequence of characters
    oob,        \* history: an array was indexed outside [0, n)
    dropped     \* history: a MinHeap::push hit the capacity and returned

avlVars   == <<root, keys, avlOp, prevRoot>>
graphVars == <<objs, handles, lastOp, nOps>>
algVars   == <<pc, start, visited, dist, parent, work, heap, first, result, oob, dropped>>
vars      == <<root, keys, avlOp, prevRoot, objs, handles, lastOp, nOps, pc, start, visited,
               dist, parent, work, heap, first, result, oob, dropped>>

-----------------------------------------------------------------------------
(* Bounds *)

MaxKey == 8         \* AVL keys are drawn from 1..MaxKey
MaxN == 3           \* SpecGraph: Graph(vertices, _) is called with vertices in 0..MaxN
MaxHandles == 3     \* SpecGraph: the caller holds at most this many Graph pointers
MaxOps == 4         \* SpecGraph: the caller makes at most this many Graph calls
MaxWeight == 2      \* SpecGraph: addEdge is called with w in 1..MaxWeight
MaxVertices == 3    \* SpecAlg: the graph queried has 0..MaxVertices vertices
MaxEdges == 4       \* SpecFair: the graph queried has at most MaxEdges nonzero cells
MaxHeap == 6        \* SpecHeap: the MinHeap is constructed with capacity MaxHeap
MaxHeapKey == 3     \* SpecHeap: push is called with key in 0..MaxHeapKey

-----------------------------------------------------------------------------
(* AVL tree *)

NULL == <<>>

\* AVL::Node::Node(int k)
NewNode(k) == [key |-> k, height |-> 1, left |-> NULL, right |-> NULL]

max(a, b) == IF a > b THEN a ELSE b

height(n) == IF n = NULL THEN 0 ELSE n.height

getBalance(n) == IF n = NULL THEN 0 ELSE height(n.left) - height(n.right)

rightRotate(y) ==
    LET x  == y.left
        T2 == x.right
        y1 == [y EXCEPT !.left = T2]
        y2 == [y1 EXCEPT !.height = 1 + max(height(y1.left), height(y1.right))]
        x1 == [x EXCEPT !.right = y2]
    IN  [x1 EXCEPT !.height = 1 + max(height(x1.left), height(x1.right))]

\* leftRotate that leaves the height of x as it was.
leftRotateStaleHeight(x) ==
    LET y  == x.right
        T2 == y.left
        x1 == [x EXCEPT !.right = T2]
        y1 == [y EXCEPT !.left = x1]
    IN  [y1 EXCEPT !.height = 1 + max(height(y1.left), height(y1.right))]

leftRotate(x) ==
    LET y  == x.right
        T2 == y.left
        x1 == [x EXCEPT !.right = T2]
        x2 == [x1 EXCEPT !.height = 1 + max(height(x1.left), height(x1.right))]
        y1 == [y EXCEPT !.left = x2]
    IN  [y1 EXCEPT !.height = 1 + max(height(y1.left), height(y1.right))]

\* insertRebalance with the thresholds off by one (balance > 0, balance < 0).
insertRebalanceEager(node, key) ==
    LET balance == getBalance(node)
    IN  IF balance > 0 /\ key < node.left.key THEN rightRotate(node)
        ELSE IF balance < 0 /\ key > node.right.key THEN leftRotate(node)
        ELSE IF balance > 1 /\ key > node.left.key
            THEN rightRotate([node EXCEPT !.left = leftRotate(node.left)])
        ELSE IF balance < -1 /\ key < node.right.key
            THEN leftRotate([node EXCEPT !.right = rightRotate(node.right)])
        ELSE node

\* The rebalancing tail of AVL::insert(Node*, int), after the height update.
insertRebalance(node, key) ==
    LET balance == getBalance(node)
    IN  IF balance > 1 /\ key < node.left.key THEN rightRotate(node)
        ELSE IF balance < -1 /\ key > node.right.key THEN leftRotate(node)
        ELSE IF balance > 1 /\ key > node.left.key
            THEN rightRotate([node EXCEPT !.left = leftRotate(node.left)])
        ELSE IF balance < -1 /\ key < node.right.key
            THEN leftRotate([node EXCEPT !.right = rightRotate(node.right)])
        ELSE node

RECURSIVE insertNode(_, _)
insertNode(node, key) ==
    IF node = NULL THEN NewNode(key)
    ELSE IF key # node.key
        THEN LET n1 == IF key < node.key
                       THEN [node EXCEPT !.left = insertNode(node.left, key)]
                       ELSE [node EXCEPT !.right = insertNode(node.right, key)]
                 n2 == [n1 EXCEPT !.height = 1 + max(height(n1.left), height(n1.right))]
             IN  insertRebalance(n2, key)
        ELSE node

\* minValueNode that does not walk down to the leftmost node.
minValueNodeNoWalk(node) == node

RECURSIVE minValueNode(_)
minValueNode(node) == IF node.left # NULL THEN minValueNode(node.left) ELSE node

\* removeRebalance without the double rotations (LR and RL cases).
removeRebalanceSingle(node) ==
    LET r       == [node EXCEPT !.height = 1 + max(height(node.left), height(node.right))]
        balance == getBalance(r)
    IN  IF balance > 1 THEN rightRotate(r)
        ELSE IF balance < -1 THEN leftRotate(r)
        ELSE r

\* The rebalancing tail of AVL::remove(Node*, int), from the height update on.
removeRebalance(node) ==
    LET r       == [node EXCEPT !.height = 1 + max(height(node.left), height(node.right))]
        balance == getBalance(r)
    IN  IF balance > 1 /\ getBalance(r.left) >= 0 THEN rightRotate(r)
        ELSE IF balance > 1 /\ getBalance(r.left) < 0
            THEN rightRotate([r EXCEPT !.left = leftRotate(r.left)])
        ELSE IF balance < -1 /\ getBalance(r.right) <= 0 THEN leftRotate(r)
        ELSE IF balance < -1 /\ getBalance(r.right) > 0
            THEN leftRotate([r EXCEPT !.right = rightRotate(r.right)])
        ELSE r

RECURSIVE removeNode(_, _)
removeNode(node, key) ==
    IF node = NULL THEN node
    ELSE LET r == IF key < node.key
                      THEN [node EXCEPT !.left = removeNode(node.left, key)]
                  ELSE IF key > node.key
                      THEN [node EXCEPT !.right = removeNode(node.right, key)]
                  ELSE IF node.left = NULL \/ node.right = NULL
                      THEN LET temp == IF node.left # NULL THEN node.left ELSE node.right
                           IN  IF temp = NULL THEN NULL
                               ELSE [key |-> temp.key, height |-> temp.height,
                                     left |-> temp.left, right |-> temp.right]
                  ELSE LET temp == minValueNode(node.right)
                       IN  [node EXCEPT !.key = temp.key,
                                        !.right = removeNode(node.right, temp.key)]
         IN  IF r = NULL THEN r ELSE removeRebalance(r)

\* AVL::inorder(Node*): the keys handed to print, in order.
RECURSIVE inorder(_)
inorder(n) == IF n = NULL THEN <<>> ELSE inorder(n.left) \o <<n.key>> \o inorder(n.right)

AVLInit ==
    /\ root = NULL
    /\ keys = {}
    /\ avlOp = [op |-> "new", key |-> 0]
    /\ prevRoot = NULL

\* AVL::insert(int key)
AVLInsert(key) ==
    /\ root' = insertNode(root, key)
    /\ keys' = keys \cup {key}
    /\ avlOp' = [op |-> "insert", key |-> key]
    /\ prevRoot' = root
    /\ UNCHANGED <<graphVars, algVars>>

\* AVL::remove(int key)
AVLRemove(key) ==
    /\ root' = removeNode(root, key)
    /\ keys' = keys \ {key}
    /\ avlOp' = [op |-> "remove", key |-> key]
    /\ prevRoot' = root
    /\ UNCHANGED <<graphVars, algVars>>

-----------------------------------------------------------------------------
(* Graph: structure *)

\* Graph::Graph(int vertices, bool directed)
Graph(vertices, directed) ==
    [n |-> vertices,
     adjMatrix |-> [i \in 0..(vertices - 1) |-> [j \in 0..(vertices - 1) |-> 0]],
     isDirected |-> directed]

\* Graph::addEdge(int u, int v, int w)
addEdge(g, u, v, w) ==
    IF u >= 0 /\ u < g.n /\ v >= 0 /\ v < g.n
    THEN LET m1 == [g.adjMatrix EXCEPT ![u][v] = w]
         IN  [g EXCEPT !.adjMatrix = IF ~g.isDirected /\ u # v
                                     THEN [m1 EXCEPT ![v][u] = w]
                                     ELSE m1]
    ELSE g

\* Graph::removeEdge(int u, int v)
removeEdge(g, u, v) ==
    IF u >= 0 /\ u < g.n /\ v >= 0 /\ v < g.n
    THEN LET m1 == [g.adjMatrix EXCEPT ![u][v] = 0]
         IN  [g EXCEPT !.adjMatrix = IF ~g.isDirected
                                     THEN [m1 EXCEPT ![v][u] = 0]
                                     ELSE m1]
    ELSE g

\* setDirected that only stores the flag.
setDirectedFlagOnly(g, directed) == [g EXCEPT !.isDirected = directed]

\* setDirected(false) that prefers the cell below the diagonal.
setDirectedPreferLower(g, directed) ==
    LET m == g.adjMatrix
        weight(i, j) == IF m[j][i] # 0 THEN m[j][i] ELSE m[i][j]
    IN  [g EXCEPT !.isDirected = directed,
                  !.adjMatrix =
                      IF ~directed
                      THEN [a \in 0..(g.n - 1) |-> [b \in 0..(g.n - 1) |->
                              IF a < b THEN weight(a, b)
                              ELSE IF b < a THEN weight(b, a)
                              ELSE m[a][b]]]
                      ELSE m]

\* Graph::setDirected(bool directed).  The loop visits every pair i < j once
\* and writes only the cells [i][j] and [j][i], so each cell is decided by
\* the original values of its own pair.
setDirected(g, directed) ==
    LET m == g.adjMatrix
        weight(i, j) == IF m[i][j] # 0 THEN m[i][j] ELSE m[j][i]
    IN  [g EXCEPT !.isDirected = directed,
                  !.adjMatrix =
                      IF ~directed
                      THEN [a \in 0..(g.n - 1) |-> [b \in 0..(g.n - 1) |->
                              IF a < b /\ (m[a][b] # 0 \/ m[b][a] # 0) THEN weight(a, b)
                              ELSE IF b < a /\ (m[b][a] # 0 \/ m[a][b] # 0) THEN weight(b, a)
                              ELSE m[a][b]]]
                      ELSE m]

\* Graph::clear()
clear(g) ==
    [g EXCEPT !.adjMatrix = [i \in 0..(g.n - 1) |-> [j \in 0..(g.n - 1) |-> 0]]]

\* removeVertexCols that advances newJ past the removed column too.
RECURSIVE removeVertexColsNoCompact(_, _, _, _, _, _, _)
removeVertexColsNoCompact(g, vertex, i, newI, j, newJ, newGraph) ==
    IF j >= g.n THEN newGraph
    ELSE IF j = vertex
        THEN removeVertexColsNoCompact(g, vertex, i, newI, j + 1, newJ + 1, newGraph)
    ELSE removeVertexColsNoCompact(g, vertex, i, newI, j + 1, newJ + 1,
                          IF g.adjMatrix[i][j] # 0
                          THEN addEdge(newGraph, newI, newJ, g.adjMatrix[i][j])
                          ELSE newGraph)

\* Graph::removeVertex, the inner loop over j for one source row i.
RECURSIVE removeVertexCols(_, _, _, _, _, _, _)
removeVertexCols(g, vertex, i, newI, j, newJ, newGraph) ==
    IF j >= g.n THEN newGraph
    ELSE IF j = vertex THEN removeVertexCols(g, vertex, i, newI, j + 1, newJ, newGraph)
    ELSE removeVertexCols(g, vertex, i, newI, j + 1, newJ + 1,
                          IF g.adjMatrix[i][j] # 0
                          THEN addEdge(newGraph, newI, newJ, g.adjMatrix[i][j])
                          ELSE newGraph)

\* Graph::removeVertex, the outer loop over i.
RECURSIVE removeVertexRows(_, _, _, _, _)
removeVertexRows(g, vertex, i, newI, newGraph) ==
    IF i >= g.n THEN newGraph
    ELSE IF i = vertex THEN removeVertexRows(g, vertex, i + 1, newI, newGraph)
    ELSE removeVertexRows(g, vertex, i + 1, newI + 1,
                          removeVertexCols(g, vertex, i, newI, 0, 0, newGraph))

\* Graph::removeVertex(int vertex) for vertex in range: the graph allocated.
removeVertex(g, vertex) ==
    removeVertexRows(g, vertex, 0, 0, Graph(g.n - 1, g.isDirected))

Weights == 1..MaxWeight

\* The object a handle points to.
Obj(h) == objs[handles[h].obj]

Mutators == {"addEdge", "removeEdge", "setDirected", "clear"}

GraphInit ==
    /\ objs = <<>>
    /\ handles = <<>>
    /\ lastOp = [op |-> "none", h |-> 0, v |-> 0]
    /\ nOps = 0

\* new Graph(vertices, directed): the caller's first graph.
Construct(vertices, directed) ==
    /\ nOps < MaxOps
    /\ nOps' = nOps + 1
    /\ Len(handles) = 0
    /\ objs' = Append(objs, Graph(vertices, directed))
    /\ handles' = Append(handles, [obj |-> Len(objs) + 1, from |-> 0])
    /\ lastOp' = [op |-> "construct", h |-> Len(handles) + 1, v |-> vertices]
    /\ UNCHANGED <<avlVars, algVars>>

AddEdge(h, u, v, w) ==
    /\ nOps < MaxOps
    /\ nOps' = nOps + 1
    /\ objs' = [objs EXCEPT ![handles[h].obj] = addEdge(@, u, v, w)]
    /\ lastOp' = [op |-> "addEdge", h |-> h, v |-> 0]
    /\ UNCHANGED <<handles, avlVars, algVars>>

RemoveEdge(h, u, v) ==
    /\ nOps < MaxOps
    /\ nOps' = nOps + 1
    /\ objs' = [objs EXCEPT ![handles[h].obj] = removeEdge(@, u, v)]
    /\ lastOp' = [op |-> "removeEdge", h |-> h, v |-> 0]
    /\ UNCHANGED <<handles, avlVars, algVars>>

SetDirected(h, directed) ==
    /\ nOps < MaxOps
    /\ nOps' = nOps + 1
    /\ objs' = [objs EXCEPT ![handles[h].obj] = setDirected(@, directed)]
    /\ lastOp' = [op |-> "setDirected", h |-> h, v |-> IF directed THEN 1 ELSE 0,
                  before |-> Obj(h)]
    /\ UNCHANGED <<handles, avlVars, algVars>>

Clear(h) ==
    /\ nOps < MaxOps
    /\ nOps' = nOps + 1
    /\ objs' = [objs EXCEPT ![handles[h].obj] = clear(@)]
    /\ lastOp' = [op |-> "clear", h |-> h, v |-> 0]
    /\ UNCHANGED <<handles, avlVars, algVars>>

\* Graph* Graph::removeVertex(int vertex): `return this` when vertex is out
\* of range, otherwise a pointer to a new Graph.  The caller keeps the
\* pointer as a new handle; `from` records the receiver's handle.
removeVertexCall(h, vertex) ==
    /\ IF vertex < 0 \/ vertex >= Obj(h).n
       THEN /\ objs' = objs
            /\ handles' = Append(handles, [obj |-> handles[h].obj, from |-> h])
       ELSE /\ objs' = Append(objs, removeVertex(Obj(h), vertex))
            /\ handles' = Append(handles, [obj |-> Len(objs) + 1, from |-> h])
    /\ lastOp' = [op |-> "removeVertex", h |-> h, v |-> vertex]

RemoveVertex(h, vertex) ==
    /\ nOps < MaxOps
    /\ nOps' = nOps + 1
    /\ Len(handles) < MaxHandles
    /\ removeVertexCall(h, vertex)
    /\ UNCHANGED <<avlVars, algVars>>

\* The arguments a caller passes for a vertex of handle h: every index in
\* range, and one out of range on either side.
Args(h) == -1..Obj(h).n

Hs == 1..Len(handles)

GraphNext ==
    \/ \E vertices \in 0..MaxN, directed \in BOOLEAN : Construct(vertices, directed)
    \/ \E h \in Hs : \E u \in Args(h), v \in Args(h), w \in Weights : AddEdge(h, u, v, w)
    \/ \E h \in Hs : \E u \in Args(h), v \in Args(h) : RemoveEdge(h, u, v)
    \/ \E h \in Hs, directed \in BOOLEAN : SetDirected(h, directed)
    \/ \E h \in Hs : Clear(h)
    \/ \E h \in Hs : \E vertex \in Args(h) : RemoveVertex(h, vertex)

-----------------------------------------------------------------------------
(* Strings: a string is the sequence of its characters *)

Digits == <<"0", "1", "2", "3", "4", "5", "6", "7", "8", "9">>

\* The while loop of intToString: prepend char('0' + num % 10), num /= 10.
RECURSIVE intToStringLoop(_, _)
intToStringLoop(num, res) ==
    IF num > 0
    THEN intToStringLoop(num \div 10, <<Digits[(num % 10) + 1]>> \o res)
    ELSE res

\* string intToString(int num)
intToString(num) ==
    IF num = 0 THEN <<"0">>
    ELSE LET negative == num < 0
             res == intToStringLoop(IF negative THEN -num ELSE num, <<>>)
         IN  IF negative THEN <<"-">> \o res ELSE res

-----------------------------------------------------------------------------
(* MinHeap: heap[1..size] as a sequence of PQNode records *)

INF == 999999

PQNode(vertex, key) == [vertex |-> vertex, key |-> key]

swap(h, a, b) == [h EXCEPT ![a] = h[b], ![b] = h[a]]

\* heapifyUp that leaves the new entry at the end of the array.
heapifyUpNone(h, i) == h

RECURSIVE heapifyUp(_, _)
heapifyUp(h, i) ==
    IF i > 1 /\ h[i].key < h[i \div 2].key
    THEN heapifyUp(swap(h, i, i \div 2), i \div 2)
    ELSE h

\* heapifyDown that never looks at the right child.
RECURSIVE heapifyDownLeftOnly(_, _)
heapifyDownLeftOnly(h, i) ==
    LET size == Len(h)
        left == 2 * i
        smallest == IF left <= size /\ h[left].key < h[i].key THEN left ELSE i
    IN  IF smallest # i THEN heapifyDownLeftOnly(swap(h, i, smallest), smallest) ELSE h

RECURSIVE heapifyDown(_, _)
heapifyDown(h, i) ==
    LET size == Len(h)
        left == 2 * i
        right == 2 * i + 1
        s1 == IF left <= size /\ h[left].key < h[i].key THEN left ELSE i
        smallest == IF right <= size /\ h[right].key < h[s1].key THEN right ELSE s1
    IN  IF smallest # i THEN heapifyDown(swap(h, i, smallest), smallest) ELSE h

\* push that refuses one entry early (size + 1 >= capacity).
pushOneEarly(h, capacity, vertex, key) ==
    IF Len(h) + 1 >= capacity THEN h
    ELSE heapifyUp(Append(h, PQNode(vertex, key)), Len(h) + 1)

\* MinHeap::push(int vertex, int key) on a heap of the given capacity
push(h, capacity, vertex, key) ==
    IF Len(h) >= capacity THEN h
    ELSE heapifyUp(Append(h, PQNode(vertex, key)), Len(h) + 1)

\* MinHeap::push returned at its capacity test without storing the entry.
refused(h, capacity, vertex, key) == push(h, capacity, vertex, key) = h

\* MinHeap::pop(): the entry returned
popTop(h) == IF Len(h) = 0 THEN PQNode(-1, INF) ELSE h[1]

\* pop that returns the top and leaves the heap as it is.
popRestKeep(h) == h

\* MinHeap::pop(): the heap left
popRest(h) ==
    IF Len(h) = 0 THEN h
    ELSE LET h1 == SubSeq([h EXCEPT ![1] = h[Len(h)]], 1, Len(h) - 1)
         IN  IF Len(h1) > 0 THEN heapifyDown(h1, 1) ELSE h1

-----------------------------------------------------------------------------
(* Graph: queries.  A query runs on the graph of handle 1; pc is "idle"    *)
(* before the call, the query's name while its loop runs, "done" after it  *)
(* returned.                                                               *)

G == Obj(1)

InRange(g, v) == v >= 0 /\ v < g.n

NoArray == <<>>

AlgIdle ==
    /\ pc = "idle"
    /\ start = 0
    /\ visited = NoArray
    /\ dist = NoArray
    /\ parent = NoArray
    /\ work = <<>>
    /\ heap = <<>>
    /\ first = TRUE
    /\ result = <<>>
    /\ oob = FALSE
    /\ dropped = FALSE

\* The loop of dijkstra that writes dist[i..n-1] into the result.
RECURSIVE distToString(_, _, _)
distToString(d, i, n) ==
    IF i >= n THEN <<>>
    ELSE intToString(d[i]) \o (IF i < n - 1 THEN <<",">> ELSE <<>>)
         \o distToString(d, i + 1, n)

\* An early return that hands back one sentinel per vertex instead of "[]".
ReturnEmptyAllSentinel(name, arg) ==
    /\ pc' = "done"
    /\ start' = arg
    /\ result' = <<"[">> \o distToString([i \in 0..(G.n - 1) |-> INF], 0, G.n) \o <<"]">>
    /\ lastOp' = [op |-> name, h |-> 1, v |-> arg]
    /\ UNCHANGED <<visited, dist, parent, work, heap, first, oob, dropped>>

\* The early "return \"[]\"" of bfs, dfs, dijkstra and primMST.
ReturnEmpty(name, arg) ==
    /\ pc' = "done"
    /\ start' = arg
    /\ result' = <<"[", "]">>
    /\ lastOp' = [op |-> name, h |-> 1, v |-> arg]
    /\ UNCHANGED <<visited, dist, parent, work, heap, first, oob, dropped>>

\* Sep that ignores the first flag.
SepAlways(isFirst) == <<",">>

\* The separator written before every item of a result but the first.
Sep(isFirst) == IF isFirst THEN <<>> ELSE <<",">>

(* bfs *)

\* Graph::bfs up to the while loop.
CallBfs(arg) ==
    /\ pc = "idle"
    /\ IF ~InRange(G, arg) THEN ReturnEmpty("bfs", arg)
       ELSE /\ pc' = "bfs"
            /\ start' = arg
            /\ visited' = [[i \in 0..(G.n - 1) |-> FALSE] EXCEPT ![arg] = TRUE]
            /\ work' = <<arg>>
            /\ result' = <<"[">>
            /\ first' = TRUE
            /\ lastOp' = [op |-> "bfs", h |-> 1, v |-> arg]
            /\ UNCHANGED <<dist, parent, heap, oob, dropped>>
    /\ UNCHANGED <<objs, handles, nOps, avlVars>>

\* bfsScan that enqueues a neighbor without marking it visited.
RECURSIVE bfsScanNoMark(_, _, _, _)
bfsScanNoMark(g, node, neighbor, st) ==
    IF neighbor >= g.n THEN st
    ELSE bfsScanNoMark(g, node, neighbor + 1,
                 IF g.adjMatrix[node][neighbor] # 0 /\ ~st.visited[neighbor]
                 THEN [visited |-> st.visited, q |-> Append(st.q, neighbor)]
                 ELSE st)

\* bfsScan reading the matrix transposed: adjMatrix[neighbor][node].
RECURSIVE bfsScanTransposed(_, _, _, _)
bfsScanTransposed(g, node, neighbor, st) ==
    IF neighbor >= g.n THEN st
    ELSE bfsScanTransposed(g, node, neighbor + 1,
                 IF g.adjMatrix[neighbor][node] # 0 /\ ~st.visited[neighbor]
                 THEN [visited |-> [st.visited EXCEPT ![neighbor] = TRUE],
                       q |-> Append(st.q, neighbor)]
                 ELSE st)

\* The neighbor loop of bfs from `neighbor` on; st = [visited, q].
RECURSIVE bfsScan(_, _, _, _)
bfsScan(g, node, neighbor, st) ==
    IF neighbor >= g.n THEN st
    ELSE bfsScan(g, node, neighbor + 1,
                 IF g.adjMatrix[node][neighbor] # 0 /\ ~st.visited[neighbor]
                 THEN [visited |-> [st.visited EXCEPT ![neighbor] = TRUE],
                       q |-> Append(st.q, neighbor)]
                 ELSE st)

\* One iteration of the while loop of bfs.
BfsStep ==
    /\ pc = "bfs"
    /\ work # <<>>
    /\ LET node == Head(work)
           st == bfsScan(G, node, 0, [visited |-> visited, q |-> Tail(work)])
       IN  /\ result' = result \o Sep(first) \o intToString(node)
           /\ first' = FALSE
           /\ visited' = st.visited
           /\ work' = st.q
    /\ UNCHANGED <<pc, start, dist, parent, heap, oob, dropped, objs, handles, lastOp, nOps, avlVars>>

\* bfs after the loop: result += "]", return.
BfsReturn ==
    /\ pc = "bfs"
    /\ work = <<>>
    /\ result' = result \o <<"]">>
    /\ pc' = "done"
    /\ UNCHANGED <<start, visited, dist, parent, work, heap, first, oob, dropped,
                   objs, handles, lastOp, nOps, avlVars>>

(* dfs *)

\* Graph::dfs up to the while loop.
CallDfs(arg) ==
    /\ pc = "idle"
    /\ IF ~InRange(G, arg) THEN ReturnEmpty("dfs", arg)
       ELSE /\ pc' = "dfs"
            /\ start' = arg
            /\ visited' = [i \in 0..(G.n - 1) |-> FALSE]
            /\ work' = <<arg>>
            /\ result' = <<"[">>
            /\ first' = TRUE
            /\ lastOp' = [op |-> "dfs", h |-> 1, v |-> arg]
            /\ UNCHANGED <<dist, parent, heap, oob, dropped>>
    /\ UNCHANGED <<objs, handles, nOps, avlVars>>

\* dfsScan that walks the neighbors upward, so the largest index ends on top.
RECURSIVE dfsScanAscending(_, _, _, _, _)
dfsScanAscending(g, node, neighbor, vis, s) ==
    IF neighbor < 0 THEN s
    ELSE LET below == dfsScanAscending(g, node, neighbor - 1, vis, s)
         IN  IF g.adjMatrix[node][neighbor] # 0 /\ ~vis[neighbor]
             THEN <<neighbor>> \o below
             ELSE below

\* The neighbor loop of dfs from `neighbor` down; s is the stack, top first.
RECURSIVE dfsScan(_, _, _, _, _)
dfsScan(g, node, neighbor, vis, s) ==
    IF neighbor < 0 THEN s
    ELSE dfsScan(g, node, neighbor - 1, vis,
                 IF g.adjMatrix[node][neighbor] # 0 /\ ~vis[neighbor]
                 THEN <<neighbor>> \o s
                 ELSE s)

\* One iteration of the while loop of dfs.
DfsStep ==
    /\ pc = "dfs"
    /\ work # <<>>
    /\ LET node == Head(work)
       IN  IF ~visited[node]
           THEN LET vis == [visited EXCEPT ![node] = TRUE]
                IN  /\ visited' = vis
                    /\ result' = result \o Sep(first) \o intToString(node)
                    /\ first' = FALSE
                    /\ work' = dfsScan(G, node, G.n - 1, vis, Tail(work))
           ELSE /\ work' = Tail(work)
                /\ UNCHANGED <<visited, result, first>>
    /\ UNCHANGED <<pc, start, dist, parent, heap, oob, dropped, objs, handles, lastOp, nOps, avlVars>>

\* dfs after the loop: result += "]", return.
DfsReturn ==
    /\ pc = "dfs"
    /\ work = <<>>
    /\ result' = result \o <<"]">>
    /\ pc' = "done"
    /\ UNCHANGED <<start, visited, dist, parent, work, heap, first, oob, dropped,
                   objs, handles, lastOp, nOps, avlVars>>

(* dijkstra *)

\* Graph::dijkstra up to the while loop.
CallDijkstra(arg) ==
    /\ pc = "idle"
    /\ IF ~InRange(G, arg) THEN ReturnEmpty("dijkstra", arg)
       ELSE /\ pc' = "dijkstra"
            /\ start' = arg
            /\ dist' = [[i \in 0..(G.n - 1) |-> INF] EXCEPT ![arg] = 0]
            /\ visited' = [i \in 0..(G.n - 1) |-> FALSE]
            /\ heap' = push(<<>>, G.n * G.n, arg, 0)
            /\ dropped' = refused(<<>>, G.n * G.n, arg, 0)
            /\ lastOp' = [op |-> "dijkstra", h |-> 1, v |-> arg]
            /\ UNCHANGED <<parent, work, first, result, oob>>
    /\ UNCHANGED <<objs, handles, nOps, avlVars>>

\* dijkstraRelax without the test of visited[v].
RECURSIVE dijkstraRelaxNoVisited(_, _, _, _, _)
dijkstraRelaxNoVisited(g, u, v, vis, st) ==
    IF v >= g.n THEN st
    ELSE dijkstraRelaxNoVisited(g, u, v + 1, vis,
             IF g.adjMatrix[u][v] # 0
                /\ st.dist[u] + g.adjMatrix[u][v] < st.dist[v]
             THEN LET d == st.dist[u] + g.adjMatrix[u][v]
                  IN  [dist |-> [st.dist EXCEPT ![v] = d],
                       heap |-> push(st.heap, g.n * g.n, v, d),
                       dropped |-> st.dropped \/ refused(st.heap, g.n * g.n, v, d)]
             ELSE st)

\* The relaxation loop of dijkstra from v on; st = [dist, heap, dropped].
RECURSIVE dijkstraRelax(_, _, _, _, _)
dijkstraRelax(g, u, v, vis, st) ==
    IF v >= g.n THEN st
    ELSE dijkstraRelax(g, u, v + 1, vis,
             IF g.adjMatrix[u][v] # 0 /\ ~vis[v]
                /\ st.dist[u] + g.adjMatrix[u][v] < st.dist[v]
             THEN LET d == st.dist[u] + g.adjMatrix[u][v]
                  IN  [dist |-> [st.dist EXCEPT ![v] = d],
                       heap |-> push(st.heap, g.n * g.n, v, d),
                       dropped |-> st.dropped \/ refused(st.heap, g.n * g.n, v, d)]
             ELSE st)

\* One iteration of the while loop of dijkstra.
DijkstraStep ==
    /\ pc = "dijkstra"
    /\ heap # <<>>
    /\ LET u == popTop(heap).vertex
           rest == popRest(heap)
       IN  IF visited[u]
           THEN /\ heap' = rest
                /\ UNCHANGED <<visited, dist, dropped>>
           ELSE LET vis == [visited EXCEPT ![u] = TRUE]
                    st == dijkstraRelax(G, u, 0, vis,
                              [dist |-> dist, heap |-> rest, dropped |-> dropped])
                IN  /\ visited' = vis
                    /\ dist' = st.dist
                    /\ heap' = st.heap
                    /\ dropped' = st.dropped
    /\ UNCHANGED <<pc, start, parent, work, first, result, oob, objs, handles, lastOp, nOps, avlVars>>

\* dijkstra after the loop: build the result, return.
DijkstraReturn ==
    /\ pc = "dijkstra"
    /\ heap = <<>>
    /\ result' = <<"[">> \o distToString(dist, 0, G.n) \o <<"]">>
    /\ pc' = "done"
    /\ UNCHANGED <<start, visited, dist, parent, work, heap, first, oob, dropped,
                   objs, handles, lastOp, nOps, avlVars>>

(* primMST: key is held in dist, inMST in visited *)

\* Graph::primMST up to the while loop.  With n = 0 the write key[0] = 0
\* lands outside the (empty) array and the push is refused by the
\* zero-capacity heap.
CallPrim ==
    /\ pc = "idle"
    /\ IF G.isDirected THEN ReturnEmpty("primMST", 0)
       ELSE /\ pc' = "primMST"
            /\ start' = 0
            /\ dist' = [i \in 0..(G.n - 1) |-> IF i = 0 THEN 0 ELSE INF]
            /\ parent' = [i \in 0..(G.n - 1) |-> -1]
            /\ visited' = [i \in 0..(G.n - 1) |-> FALSE]
            /\ oob' = (G.n = 0)
            /\ heap' = push(<<>>, G.n * G.n, 0, 0)
            /\ dropped' = refused(<<>>, G.n * G.n, 0, 0)
            /\ result' = <<"[">>
            /\ first' = TRUE
            /\ lastOp' = [op |-> "primMST", h |-> 1, v |-> 0]
            /\ UNCHANGED work
    /\ UNCHANGED <<objs, handles, nOps, avlVars>>

\* primRelax without the comparison against key[v].
RECURSIVE primRelaxNoKey(_, _, _, _, _)
primRelaxNoKey(g, u, v, inMST, st) ==
    IF v >= g.n THEN st
    ELSE primRelaxNoKey(g, u, v + 1, inMST,
             IF g.adjMatrix[u][v] # 0 /\ ~inMST[v]
             THEN [key |-> [st.key EXCEPT ![v] = g.adjMatrix[u][v]],
                   parent |-> [st.parent EXCEPT ![v] = u],
                   heap |-> push(st.heap, g.n * g.n, v, g.adjMatrix[u][v]),
                   dropped |-> st.dropped \/ refused(st.heap, g.n * g.n, v, g.adjMatrix[u][v])]
             ELSE st)

\* The neighbor loop of primMST from v on; st = [key, parent, heap, dropped].
RECURSIVE primRelax(_, _, _, _, _)
primRelax(g, u, v, inMST, st) ==
    IF v >= g.n THEN st
    ELSE primRelax(g, u, v + 1, inMST,
             IF g.adjMatrix[u][v] # 0 /\ ~inMST[v] /\ g.adjMatrix[u][v] < st.key[v]
             THEN [key |-> [st.key EXCEPT ![v] = g.adjMatrix[u][v]],
                   parent |-> [st.parent EXCEPT ![v] = u],
                   heap |-> push(st.heap, g.n * g.n, v, g.adjMatrix[u][v]),
                   dropped |-> st.dropped \/ refused(st.heap, g.n * g.n, v, g.adjMatrix[u][v])]
             ELSE st)

\* The edge record primMST appends for u: "parent-u:weight".
edgeToString(g, p, u) ==
    intToString(p) \o <<"-">> \o intToString(u) \o <<":">>
        \o intToString(g.adjMatrix[p][u])

\* PrimStep without the test of inMST[u] on the popped vertex.
PrimStepNoSkip ==
    /\ pc = "primMST"
    /\ heap # <<>>
    /\ LET u == popTop(heap).vertex
           rest == popRest(heap)
           inMST == [visited EXCEPT ![u] = TRUE]
           st == primRelax(G, u, 0, inMST,
                     [key |-> dist, parent |-> parent, heap |-> rest,
                      dropped |-> dropped])
       IN  /\ visited' = inMST
           /\ IF parent[u] # -1
              THEN /\ result' = result \o Sep(first) \o edgeToString(G, parent[u], u)
                   /\ first' = FALSE
              ELSE UNCHANGED <<result, first>>
           /\ dist' = st.key
           /\ parent' = st.parent
           /\ heap' = st.heap
           /\ dropped' = st.dropped
    /\ UNCHANGED <<pc, start, work, oob, objs, handles, lastOp, nOps, avlVars>>

\* One iteration of the while loop of primMST.
PrimStep ==
    /\ pc = "primMST"
    /\ heap # <<>>
    /\ LET u == popTop(heap).vertex
           rest == popRest(heap)
       IN  IF visited[u]
           THEN /\ heap' = rest
                /\ UNCHANGED <<visited, dist, parent, dropped, result, first>>
           ELSE LET inMST == [visited EXCEPT ![u] = TRUE]
                    st == primRelax(G, u, 0, inMST,
                              [key |-> dist, parent |-> parent, heap |-> rest,
                               dropped |-> dropped])
                IN  /\ visited' = inMST
                    /\ IF parent[u] # -1
                       THEN /\ result' = result \o Sep(first) \o edgeToString(G, parent[u], u)
                            /\ first' = FALSE
                       ELSE UNCHANGED <<result, first>>
                    /\ dist' = st.key
                    /\ parent' = st.parent
                    /\ heap' = st.heap
                    /\ dropped' = st.dropped
    /\ UNCHANGED <<pc, start, work, oob, objs, handles, lastOp, nOps, avlVars>>

\* primMST after the loop: result += "]", return.
PrimReturn ==
    /\ pc = "primMST"
    /\ heap = <<>>
    /\ result' = result \o <<"]">>
    /\ pc' = "done"
    /\ UNCHANGED <<start, visited, dist, parent, work, heap, first, oob, dropped,
                   objs, handles, lastOp, nOps, avlVars>>

(* removeVertex as a query: the graph of handle 1 is the receiver *)

QueryRemoveVertex(vertex) ==
    /\ pc = "idle"
    /\ removeVertexCall(1, vertex)
    /\ pc' = "done"
    /\ start' = vertex
    /\ UNCHANGED <<visited, dist, parent, work, heap, first, result, oob, dropped,
                   nOps, avlVars>>

-----------------------------------------------------------------------------
(* The graphs a query can find: any matrix over the weights when directed, *)
(* any matrix with pairwise equal mirror cells when undirected.            *)

\* The cell values of the graphs queried: 0 (no edge) and two weights such
\* that two light edges (1 + 1) beat one heavy edge (3).
QueryWeights == {0, 1, 3}

Symmetric(m, n) == \A i \in 0..(n - 1), j \in 0..(n - 1) : m[i][j] = m[j][i]

QueryGraphs(weights) ==
    UNION {{[n |-> n, adjMatrix |-> m, isDirected |-> d] :
               m \in {mm \in [0..(n - 1) -> [0..(n - 1) -> weights]] :
                          d \/ Symmetric(mm, n)}} :
           n \in 0..MaxVertices, d \in BOOLEAN}

AlgInit ==
    /\ AVLInit
    /\ AlgIdle
    /\ \E g \in QueryGraphs(QueryWeights) : objs = <<g>>
    /\ handles = <<[obj |-> 1, from |-> 0]>>
    /\ lastOp = [op |-> "none", h |-> 0, v |-> 0]
    /\ nOps = 0

AlgNext ==
    \/ \E arg \in -1..G.n : CallBfs(arg)
    \/ BfsStep
    \/ BfsReturn
    \/ \E arg \in -1..G.n : CallDfs(arg)
    \/ DfsStep
    \/ DfsReturn
    \/ \E arg \in -1..G.n : CallDijkstra(arg)
    \/ DijkstraStep
    \/ DijkstraReturn
    \/ CallPrim
    \/ PrimStep
    \/ PrimReturn
    \/ \E vertex \in -1..G.n : QueryRemoveVertex(vertex)

-----------------------------------------------------------------------------
(* Specifications *)

Init == AVLInit /\ GraphInit /\ AlgIdle

Next ==
    \/ \E key \in 1..MaxKey : AVLInsert(key)
    \/ \E key \in 1..MaxKey : AVLRemove(key)

Spec == Init /\ [][Next]_vars

SpecGraph == Init /\ [][GraphNext]_vars

SpecAlg == AlgInit /\ [][AlgNext]_vars

-----------------------------------------------------------------------------
(* The 4-vertex scenario: an undirected graph built by four addEdge calls, *)
(* queried after any number of them.                                       *)

ScenarioEdges == <<<<0, 1, 1>>, <<1, 2, 2>>, <<2, 3, 1>>, <<0, 3, 5>>>>

ScenarioInit ==
    /\ AVLInit
    /\ AlgIdle
    /\ objs = <<Graph(4, FALSE)>>
    /\ handles = <<[obj |-> 1, from |-> 0]>>
    /\ lastOp = [op |-> "construct", h |-> 1, v |-> 4]
    /\ nOps = 0

\* The next addEdge call of the scenario.
ScenarioAddEdge ==
    /\ pc = "idle"
    /\ nOps < Len(ScenarioEdges)
    /\ nOps' = nOps + 1
    /\ LET e == ScenarioEdges[nOps + 1]
       IN  objs' = <<addEdge(G, e[1], e[2], e[3])>>
    /\ lastOp' = [op |-> "addEdge", h |-> 1, v |-> 0]
    /\ UNCHANGED <<handles, avlVars, algVars>>

ScenarioNext == ScenarioAddEdge \/ AlgNext

SpecScenario == ScenarioInit /\ [][ScenarioNext]_vars

-----------------------------------------------------------------------------
(* The same queries on graphs with negative weights. *)

NegWeights == {-2, 0, 1}

NegInit ==
    /\ AVLInit
    /\ AlgIdle
    /\ \E g \in QueryGraphs(NegWeights) : objs = <<g>>
    /\ handles = <<[obj |-> 1, from |-> 0]>>
    /\ lastOp = [op |-> "none", h |-> 0, v |-> 0]
    /\ nOps = 0

SpecNeg == NegInit /\ [][AlgNext]_vars

\* A query, once called, runs to its return: every iteration of its loop and
\* the code after the loop are taken when they can be.
AlgStep ==
    \/ BfsStep \/ BfsReturn
    \/ DfsStep \/ DfsReturn
    \/ DijkstraStep \/ DijkstraReturn
    \/ PrimStep \/ PrimReturn

\* The graphs of NegInit with at most MaxEdges nonzero cells.
FairInit ==
    /\ NegInit
    /\ Cardinality({c \in (0..(G.n - 1)) \X (0..(G.n - 1)) :
                        G.adjMatrix[c[1]][c[2]] # 0}) <= MaxEdges

SpecFair == FairInit /\ [][AlgNext]_vars /\ WF_vars(AlgStep)

-----------------------------------------------------------------------------
(* A MinHeap of capacity MaxHeap used directly: any sequence of push and   *)
(* pop calls.  heap is the array heap[1..size]; dropped tells whether a    *)
(* push was refused; lastOp holds the last call, for pop with the heap as  *)
(* it was before the call and the entry returned.                          *)

HeapVertices == {0, 1}

\* MinHeap pq(MaxHeap)
HeapInit == Init

\* pq.push(vertex, key)
HeapPush(vertex, key) ==
    /\ heap' = push(heap, MaxHeap, vertex, key)
    /\ dropped' = (dropped \/ refused(heap, MaxHeap, vertex, key))
    /\ lastOp' = [op |-> "push", h |-> 0, v |-> vertex]
    /\ UNCHANGED <<pc, start, visited, dist, parent, work, first, result, oob,
                   objs, handles, nOps, avlVars>>

\* pq.pop()
HeapPop ==
    /\ heap' = popRest(heap)
    /\ lastOp' = [op |-> "pop", h |-> 0, v |-> 0, before |-> heap, ret |-> popTop(heap)]
    /\ UNCHANGED <<pc, start, visited, dist, parent, work, first, result, oob, dropped,
                   objs, handles, nOps, avlVars>>

HeapNext ==
    \/ \E vertex \in HeapVertices, key \in 0..MaxHeapKey : HeapPush(vertex, key)
    \/ HeapPop

SpecHeap == HeapInit /\ [][HeapNext]_vars

-----------------------------------------------------------------------------
(* AVL tree: properties *)

\* The nodes of a tree, each as the subtree it roots.
RECURSIVE NodesOf(_)
NodesOf(t) == IF t = NULL THEN {} ELSE {t} \cup NodesOf(t.left) \cup NodesOf(t.right)

\* The keys stored in a tree.
KeysOf(t) == {nd.key : nd \in NodesOf(t)}

\* The number of nodes on the longest path from t down to a leaf.
RECURSIVE Depth(_)
Depth(t) == IF t = NULL THEN 0 ELSE 1 + max(Depth(t.left), Depth(t.right))

Abs(x) == IF x < 0 THEN -x ELSE x

\* The node of t that holds key k (NULL when absent), by a scan of all nodes.
NodeWithKey(t, k) ==
    IF k \in KeysOf(t) THEN CHOOSE nd \in NodesOf(t) : nd.key = k ELSE NULL

\* C1: after any sequence of insert and remove calls, every node's stored
\* height is 1 + max of its children's heights (absent child = 0), and the
\* heights of its two subtrees differ by at most 1.
C1_HeightAndBalance ==
    \A nd \in NodesOf(root) :
        /\ nd.height = 1 + max(height(nd.left), height(nd.right))
        /\ nd.height = Depth(nd)
        /\ Abs(Depth(nd.left) - Depth(nd.right)) <= 1

\* A remove has just rotated at the root: it removed a key below the root
\* of a tree of depth 4 and the root's key changed.
C1_Witness ==
    /\ avlOp.op = "remove"
    /\ avlOp.key \in KeysOf(prevRoot)
    /\ avlOp.key # prevRoot.key
    /\ Depth(prevRoot) = 4
    /\ root.key # prevRoot.key

\* C2: the inorder traversal visits keys in strictly ascending order, and
\* the keys visited are exactly those inserted and not removed since.
C2_InorderSortedExact ==
    LET s == inorder(root)
    IN  /\ \A i \in 1..(Len(s) - 1) : s[i] < s[i + 1]
        /\ {s[i] : i \in 1..Len(s)} = keys

\* A remove has just deleted a node that had two children.
C2_Witness ==
    /\ avlOp.op = "remove"
    /\ LET nd == NodeWithKey(prevRoot, avlOp.key)
       IN  nd # NULL /\ nd.left # NULL /\ nd.right # NULL /\ nd.right.left # NULL
    /\ Len(inorder(root)) >= 4

\* C3: insert of a key already present, and remove of a key absent, leave
\* the tree (shape, keys and stored heights) as it was.
C3_Idempotent ==
    /\ (avlOp.op = "insert" /\ avlOp.key \in KeysOf(prevRoot)) => root = prevRoot
    /\ (avlOp.op = "remove" /\ avlOp.key \notin KeysOf(prevRoot)) => root = prevRoot

\* A duplicate was inserted below the root of a tree of depth 3.
C3_Witness ==
    /\ avlOp.op = "insert"
    /\ avlOp.key \in KeysOf(prevRoot)
    /\ avlOp.key # prevRoot.key
    /\ Depth(prevRoot) >= 3

-----------------------------------------------------------------------------
(* Reading a result back: the integers, or the edge records, a returned    *)
(* string spells.                                                          *)

DigitVal(c) == CHOOSE d \in 0..9 : Digits[d + 1] = c

RECURSIVE ParseNat(_, _)
ParseNat(cs, acc) ==
    IF cs = <<>> THEN acc ELSE ParseNat(Tail(cs), acc * 10 + DigitVal(Head(cs)))

ParseInt(cs) == IF Head(cs) = "-" THEN 0 - ParseNat(Tail(cs), 0) ELSE ParseNat(cs, 0)

\* The pieces of cs between occurrences of sep.
RECURSIVE SplitOn(_, _, _)
SplitOn(cs, sep, cur) ==
    IF cs = <<>> THEN <<cur>>
    ELSE IF Head(cs) = sep THEN <<cur>> \o SplitOn(Tail(cs), sep, <<>>)
    ELSE SplitOn(Tail(cs), sep, Append(cur, Head(cs)))

IsList(str) == Len(str) >= 2 /\ str[1] = "[" /\ str[Len(str)] = "]"

\* The items of "[item,item,...]".
Items(str) ==
    LET inner == SubSeq(str, 2, Len(str) - 1)
    IN  IF inner = <<>> THEN <<>> ELSE SplitOn(inner, ",", <<>>)

ParseIntList(str) == [k \in 1..Len(Items(str)) |-> ParseInt(Items(str)[k])]

\* The position of the first occurrence of c in cs.
FirstIndex(cs, c) == CHOOSE k \in 1..Len(cs) : cs[k] = c /\ \A l \in 1..(k - 1) : cs[l] # c

\* "parent-child:weight"
ParseEdge(cs) ==
    LET dash == FirstIndex(cs, "-")
        colon == FirstIndex(cs, ":")
    IN  [parent |-> ParseInt(SubSeq(cs, 1, dash - 1)),
         child |-> ParseInt(SubSeq(cs, dash + 1, colon - 1)),
         weight |-> ParseInt(SubSeq(cs, colon + 1, Len(cs)))]

ParseEdgeList(str) == [k \in 1..Len(Items(str)) |-> ParseEdge(Items(str)[k])]

-----------------------------------------------------------------------------
(* Graph: reference notions *)

Vertices(g) == 0..(g.n - 1)

\* The vertices reachable from the set S in at most k steps along nonzero cells.
RECURSIVE ReachWithin(_, _, _)
ReachWithin(g, S, k) ==
    IF k = 0 THEN S
    ELSE LET R == ReachWithin(g, S, k - 1)
         IN  R \cup {v \in Vertices(g) : \E u \in R : g.adjMatrix[u][v] # 0}

Reachable(g, s) == ReachWithin(g, {s}, g.n)

SetMin(S) == CHOOSE x \in S : \A y \in S : x <= y

\* The least weight sum of a walk of at most k edges from s to v (INF: none).
RECURSIVE MinWalk(_, _, _, _)
MinWalk(g, s, v, k) ==
    IF k = 0 THEN (IF v = s THEN 0 ELSE INF)
    ELSE SetMin({MinWalk(g, s, v, k - 1)} \cup
                {MinWalk(g, s, u, k - 1) + g.adjMatrix[u][v] :
                    u \in {x \in Vertices(g) : g.adjMatrix[x][v] # 0
                                               /\ MinWalk(g, s, x, k - 1) < INF}})

NonNegative(g) == \A i \in Vertices(g), j \in Vertices(g) : g.adjMatrix[i][j] >= 0

\* The undirected edges {i, j}, i < j, of g.
EdgesOf(g) == {e \in Vertices(g) \X Vertices(g) : e[1] < e[2] /\ g.adjMatrix[e[1]][e[2]] # 0}

\* The vertices joined to the set S by at most k edges of T.
RECURSIVE JoinedWithin(_, _, _)
JoinedWithin(T, S, k) ==
    IF k = 0 THEN S
    ELSE LET R == JoinedWithin(T, S, k - 1)
         IN  R \cup {e[1] : e \in {x \in T : x[2] \in R}}
               \cup {e[2] : e \in {x \in T : x[1] \in R}}

RECURSIVE SumOver(_, _)
SumOver(g, T) ==
    IF T = {} THEN 0
    ELSE LET e == CHOOSE x \in T : TRUE
         IN  g.adjMatrix[e[1]][e[2]] + SumOver(g, T \ {e})

SpanningTrees(g) ==
    {T \in SUBSET EdgesOf(g) :
        Cardinality(T) = g.n - 1 /\ JoinedWithin(T, {0}, g.n) = Vertices(g)}

Connected(g) == Reachable(g, 0) = Vertices(g)

MSTWeight(g) == SetMin({SumOver(g, T) : T \in SpanningTrees(g)})

RECURSIVE SumWeights(_)
SumWeights(es) == IF es = <<>> THEN 0 ELSE Head(es).weight + SumWeights(Tail(es))

\* m without row v and column v, the survivors keeping their order.
Minor(m, v, n) ==
    [i \in 0..(n - 2) |-> [j \in 0..(n - 2) |->
        m[IF i < v THEN i ELSE i + 1][IF j < v THEN j ELSE j + 1]]]

Returned(qname) == pc = "done" /\ lastOp.op = qname

-----------------------------------------------------------------------------
(* Graph: properties *)

\* C4: whenever a graph's directed flag is false, its matrix has
\* weight[i][j] = weight[j][i] for all i # j.
C4_UndirectedSymmetric ==
    \A o \in 1..Len(objs) :
        ~objs[o].isDirected =>
            \A i \in Vertices(objs[o]), j \in Vertices(objs[o]) :
                i # j => objs[o].adjMatrix[i][j] = objs[o].adjMatrix[j][i]

\* setDirected(false) was just called on a graph that removeVertex returned
\* and that has an edge between its two vertices.
C4_Witness ==
    /\ lastOp.op = "setDirected"
    /\ handles[lastOp.h].from # 0
    /\ handles[lastOp.h].obj # handles[handles[lastOp.h].from].obj
    /\ ~Obj(lastOp.h).isDirected
    /\ Obj(lastOp.h).n = 2
    /\ Obj(lastOp.h).adjMatrix[0][1] # 0

\* C5: on a graph with nonnegative weights, dijkstra(start) with start in
\* range returns 0 for start, the least path weight for every vertex
\* reachable from start, and 999999 for every unreachable vertex.
C5_DijkstraShortest ==
    (Returned("dijkstra") /\ InRange(G, start) /\ NonNegative(G)) =>
        /\ IsList(result)
        /\ ParseIntList(result) = [k \in 1..G.n |-> MinWalk(G, start, k - 1, G.n - 1)]
        /\ ParseIntList(result)[start + 1] = 0
        /\ \A v \in Vertices(G) :
              v \notin Reachable(G, start) <=> ParseIntList(result)[v + 1] = INF

\* dijkstra(0) returned on a graph where vertex 1 was first reached at
\* distance 3 and then improved to 2 through vertex 2, vertex 0 unreachable
\* from the others.
C5_Witness ==
    /\ Returned("dijkstra")
    /\ start = 0
    /\ G.n = 3
    /\ G.adjMatrix[0][1] = 3 /\ G.adjMatrix[0][2] = 1 /\ G.adjMatrix[2][1] = 1
    /\ ParseIntList(result) = <<0, 2, 1>>

\* C6: on a connected undirected graph with at least one vertex, primMST()
\* returns vertexCount - 1 edges whose weights sum to the weight of a
\* minimum spanning tree.
C6_PrimWeight ==
    (Returned("primMST") /\ ~G.isDirected /\ G.n >= 1 /\ Connected(G)) =>
        /\ IsList(result)
        /\ Len(ParseEdgeList(result)) = G.n - 1
        /\ SumWeights(ParseEdgeList(result)) = MSTWeight(G)

\* primMST() returned on a triangle whose heavy edge 0-1 is first offered
\* to vertex 1 and then replaced by the light edge 2-1.
C6_Witness ==
    /\ Returned("primMST")
    /\ ~G.isDirected
    /\ G.n = 3
    /\ G.adjMatrix[0][1] = 3 /\ G.adjMatrix[0][2] = 1 /\ G.adjMatrix[1][2] = 1
    /\ SumWeights(ParseEdgeList(result)) = 2

\* C7: bfs(start) and dfs(start) with start in range return exactly the
\* vertices reachable from start along nonzero cells, each exactly once.
C7_TraversalExact ==
    ((Returned("bfs") \/ Returned("dfs")) /\ InRange(G, start)) =>
        /\ IsList(result)
        /\ LET s == ParseIntList(result)
           IN  /\ {s[k] : k \in 1..Len(s)} = Reachable(G, start)
               /\ Len(s) = Cardinality(Reachable(G, start))

\* dfs(0) returned on a directed graph with a self-loop at 0, the cycle
\* 0 -> 1 -> 0, and vertex 2 pointing into the cycle but not reachable.
C7_Witness ==
    /\ Returned("dfs")
    /\ start = 0
    /\ G.n = 3
    /\ G.isDirected
    /\ G.adjMatrix[0][0] # 0 /\ G.adjMatrix[0][1] # 0 /\ G.adjMatrix[1][0] # 0
    /\ G.adjMatrix[2][0] # 0 /\ G.adjMatrix[0][2] = 0 /\ G.adjMatrix[1][2] = 0
    /\ ParseIntList(result) = <<0, 1>>

\* C8: removeVertex(v) with v in range leaves the receiver's matrix, vertex
\* count and directed flag as they were, and returns a graph of
\* vertexCount - 1 vertices whose matrix is the receiver's without row v
\* and column v, the surviving indices compacted in order.
C8_RemoveVertexFrame ==
    [][(pc = "idle" /\ lastOp'.op = "removeVertex" /\ InRange(G, lastOp'.v)) =>
          /\ objs'[handles'[1].obj] = objs[handles[1].obj]
          /\ Len(handles') = 2
          /\ LET r == objs'[handles'[2].obj]
             IN  /\ r.n = G.n - 1
                 /\ r.adjMatrix = Minor(G.adjMatrix, lastOp'.v, G.n)]_vars

\* removeVertex(1) returned on a directed 3-vertex graph with the edge
\* 0 -> 2 and no edge 2 -> 0: the edge is 0 -> 1 in the returned graph.
C8_Witness ==
    /\ Returned("removeVertex")
    /\ lastOp.v = 1
    /\ G.n = 3
    /\ G.adjMatrix[0][2] # 0 /\ G.adjMatrix[2][0] = 0 /\ G.adjMatrix[1][1] # 0
    /\ Len(handles) = 2
    /\ Obj(2).adjMatrix[0][1] = G.adjMatrix[0][2]
    /\ Obj(2).adjMatrix[1][0] = 0

\* C9: the graph removeVertex returns shares no state with the receiver,
\* whatever the argument: a later addEdge, removeEdge, setDirected or clear
\* on the returned graph leaves the receiver's matrix and flag unchanged.
C9_ReturnedIndependent ==
    [][(lastOp'.op \in Mutators /\ handles[lastOp'.h].from # 0) =>
          LET recv == handles[handles[lastOp'.h].from].obj
          IN  /\ objs'[recv].adjMatrix = objs[recv].adjMatrix
              /\ objs'[recv].isDirected = objs[recv].isDirected]_vars

\* C10 as stated: dijkstra(start) with start out of range returns
\* vertexCount entries, each 999999.
C10_AllSentinel ==
    (Returned("dijkstra") /\ ~InRange(G, start)) =>
        /\ IsList(result)
        /\ ParseIntList(result) = [k \in 1..G.n |-> INF]

\* C10 amended: dijkstra(start) with start out of range returns the empty
\* list "[]", whatever the vertex count.
C10_EmptyResult ==
    (Returned("dijkstra") /\ ~InRange(G, start)) => result = <<"[", "]">>

\* dijkstra(3) returned on a 3-vertex graph.
C10_Witness ==
    /\ Returned("dijkstra")
    /\ G.n = 3
    /\ start = 3

C11_WitnessStale ==
    /\ Returned("primMST")
    /\ ~G.isDirected
    /\ G.n = 3
    /\ G.adjMatrix[0][1] = 1 /\ G.adjMatrix[0][2] = 3 /\ G.adjMatrix[1][2] = 1
    /\ ParseEdgeList(result)[2] = [parent |-> 1, child |-> 2, weight |-> 1]

\* C12: setDirected(false) gives both cells of every pair i < j with a
\* nonzero cell the weight of [i][j] when that is nonzero and of [j][i]
\* otherwise, and leaves the diagonal and the all-zero pairs untouched;
\* setDirected(true) leaves the matrix untouched.  Either call stores the
\* flag and keeps the vertex count.
C12_SetDirectedMerge ==
    lastOp.op = "setDirected" =>
        LET old == lastOp.before.adjMatrix
            new == Obj(lastOp.h).adjMatrix
            V == Vertices(lastOp.before)
        IN  /\ Obj(lastOp.h).n = lastOp.before.n
            /\ Obj(lastOp.h).isDirected = (lastOp.v = 1)
            /\ DOMAIN new = V
            /\ lastOp.v = 1 => new = old
            /\ lastOp.v = 0 =>
                  /\ \A i \in V : new[i][i] = old[i][i]
                  /\ \A i \in V, j \in V :
                        i < j =>
                           IF old[i][j] # 0
                           THEN new[i][j] = old[i][j] /\ new[j][i] = old[i][j]
                           ELSE IF old[j][i] # 0
                           THEN new[i][j] = old[j][i] /\ new[j][i] = old[j][i]
                           ELSE new[i][j] = 0 /\ new[j][i] = 0

\* setDirected(false) was just called on a directed graph whose cells [0][1]
\* and [1][0] held different nonzero weights; [1][0] lost its weight.
C12_Witness ==
    /\ lastOp.op = "setDirected"
    /\ lastOp.v = 0
    /\ lastOp.before.isDirected
    /\ lastOp.before.n >= 2
    /\ lastOp.before.adjMatrix[0][1] = 2
    /\ lastOp.before.adjMatrix[1][0] = 1
    /\ Obj(lastOp.h).adjMatrix[1][0] = 2

\* C13: on the undirected 4-vertex graph built by addEdge(0,1,1),
\* addEdge(1,2,2), addEdge(2,3,1), addEdge(0,3,5): dijkstra(0) returns
\* [0,1,3,4], primMST returns [0-1:1,1-2:2,2-3:1], bfs(0) returns [0,1,3,2]
\* and dfs(0) returns [0,1,2,3].
C13_Scenario ==
    (pc = "done" /\ nOps = Len(ScenarioEdges) /\ start = 0) =>
        /\ lastOp.op = "dijkstra" =>
              result = <<"[", "0", ",", "1", ",", "3", ",", "4", "]">>
        /\ lastOp.op = "primMST" =>
              result = <<"[", "0", "-", "1", ":", "1", ",", "1", "-", "2", ":", "2",
                         ",", "2", "-", "3", ":", "1", "]">>
        /\ lastOp.op = "bfs" =>
              result = <<"[", "0", ",", "1", ",", "3", ",", "2", "]">>
        /\ lastOp.op = "dfs" =>
              result = <<"[", "0", ",", "1", ",", "2", ",", "3", "]">>

\* primMST returned on the graph of the scenario, all four edges added.
C13_Witness ==
    /\ Returned("primMST")
    /\ nOps = Len(ScenarioEdges)
    /\ G.n = 4
    /\ ~G.isDirected
    /\ G.adjMatrix[0][1] = 1 /\ G.adjMatrix[2][1] = 2
    /\ G.adjMatrix[3][2] = 1 /\ G.adjMatrix[3][0] = 5

\* dijkstra(0) returned on the graph of the scenario.
C13_WitnessDijkstra ==
    Returned("dijkstra") /\ nOps = Len(ScenarioEdges) /\ start = 0 /\ G.adjMatrix[3][0] = 5

\* bfs(0) returned on the graph of the scenario.
C13_WitnessBfs ==
    Returned("bfs") /\ nOps = Len(ScenarioEdges) /\ start = 0 /\ G.adjMatrix[3][0] = 5

\* dfs(0) returned on the graph of the scenario.
C13_WitnessDfs ==
    Returned("dfs") /\ nOps = Len(ScenarioEdges) /\ start = 0 /\ G.adjMatrix[3][0] = 5

\* The rotations insert(node, key) performs, innermost first: one record per
\* node whose rebalancing tail returns another node than it was given, with
\* the key of that node and the kind of rotation.
RECURSIVE insertRotations(_, _)
insertRotations(node, key) ==
    IF node = NULL \/ key = node.key THEN <<>>
    ELSE LET n1 == IF key < node.key
                   THEN [node EXCEPT !.left = insertNode(node.left, key)]
                   ELSE [node EXCEPT !.right = insertNode(node.right, key)]
             n2 == [n1 EXCEPT !.height = 1 + max(height(n1.left), height(n1.right))]
             res == insertRebalance(n2, key)
             kind == IF n2.right # NULL /\ res = leftRotate(n2) THEN "left"
                     ELSE IF n2.left # NULL /\ res = rightRotate(n2) THEN "right"
                     ELSE "double"
             below == insertRotations(IF key < node.key THEN node.left ELSE node.right, key)
         IN  IF res = n2 THEN below ELSE Append(below, [at |-> n2.key, kind |-> kind])

\* C14: inserting three distinct keys a < b < c in ascending order into an
\* empty tree performs exactly one rotation, a single left rotation at the
\* root a, when c is inserted; afterwards the root is b with height 2 and
\* its children are the leaves a and c with height 1.
C14_AscendingTriple ==
    \A a \in 1..MaxKey, b \in 1..MaxKey :
        (/\ a < b
         /\ avlOp.op = "insert"
         /\ b < avlOp.key
         /\ prevRoot = insertNode(insertNode(NULL, a), b)) =>
            /\ insertRotations(NULL, a) = <<>>
            /\ insertRotations(insertNode(NULL, a), b) = <<>>
            /\ insertRotations(prevRoot, avlOp.key) = <<[at |-> a, kind |-> "left"]>>
            /\ root = [key |-> b, height |-> 2,
                       left |-> [key |-> a, height |-> 1, left |-> NULL, right |-> NULL],
                       right |-> [key |-> avlOp.key, height |-> 1,
                                  left |-> NULL, right |-> NULL]]

\* 5 was just inserted into the tree that inserting 2 and then 3 into the
\* empty tree gives.
C14_Witness ==
    /\ avlOp = [op |-> "insert", key |-> 5]
    /\ prevRoot = [key |-> 2, height |-> 2, left |-> NULL, right |-> NewNode(3)]
    /\ keys = {2, 3, 5}
    /\ root.key = 3

\* The preorder of a recursive depth-first search: visit u, then for each
\* neighbor v of u in ascending index order, descend into v if it is still
\* unvisited when its turn comes.  order is the visit order so far.
RECURSIVE RecVisit(_, _, _), RecNeighbors(_, _, _, _)
RecVisit(g, u, order) == RecNeighbors(g, u, 0, Append(order, u))

RecNeighbors(g, u, v, order) ==
    IF v >= g.n THEN order
    ELSE RecNeighbors(g, u, v + 1,
             IF g.adjMatrix[u][v] # 0 /\ v \notin {order[k] : k \in 1..Len(order)}
             THEN RecVisit(g, v, order)
             ELSE order)

\* C15: dfs(start) with start in range returns the vertices in the preorder
\* of a recursive depth-first search that always descends into the
\* smallest-index neighbor still unvisited.
C15_DfsPreorder ==
    (Returned("dfs") /\ InRange(G, start)) =>
        /\ IsList(result)
        /\ ParseIntList(result) = RecVisit(G, start, <<>>)

\* dfs(0) returned on a 3-vertex graph where 0 has the neighbors 1 and 2 and
\* 1 has the neighbor 2: vertex 2 is reached through 1, and its entry
\* pushed for 0 is popped when already visited.
C15_Witness ==
    /\ Returned("dfs")
    /\ start = 0
    /\ G.n = 3
    /\ G.adjMatrix[0][1] # 0 /\ G.adjMatrix[0][2] # 0 /\ G.adjMatrix[1][2] # 0
    /\ G.adjMatrix[2][1] = 0 /\ G.adjMatrix[2][0] = 0
    /\ ParseIntList(result) = <<0, 1, 2>>

\* dfs(1) returned <<1, 0, 2>> on a graph where 1 has the neighbors 0 and 2.
C15_WitnessBranch ==
    /\ Returned("dfs")
    /\ start = 1
    /\ G.n = 3
    /\ G.adjMatrix[1][0] # 0 /\ G.adjMatrix[1][2] # 0
    /\ G.adjMatrix[0][2] = 0
    /\ ParseIntList(result) = <<1, 0, 2>>

\* C16: in dijkstra on any graph, negative weights included, every
\* iteration that pops an unvisited vertex u finds the popped key equal to
\* dist[u], marks u and leaves dist[u] as it is; an iteration that pops a
\* visited vertex finalizes nothing and changes no distance; no vertex
\* once visited is unmarked and its distance never changes again.
C16_FinalizedOnce ==
    [][(pc = "dijkstra" /\ heap # <<>>) =>
          LET top == popTop(heap)
              u == top.vertex
          IN  /\ IF visited[u]
                 THEN visited' = visited /\ dist' = dist
                 ELSE /\ top.key = dist[u]
                      /\ visited' = [visited EXCEPT ![u] = TRUE]
                      /\ dist'[u] = dist[u]
              /\ \A x \in Vertices(G) :
                    visited[x] => visited'[x] /\ dist'[x] = dist[x]]_vars

\* dijkstra is about to pop a stale entry of a visited vertex on a graph
\* with a negative weight, where a path into a visited vertex would be
\* shorter than its distance.
C16_Witness ==
    /\ pc = "dijkstra"
    /\ heap # <<>>
    /\ visited[popTop(heap).vertex]
    /\ popTop(heap).key # dist[popTop(heap).vertex]
    /\ \E x \in Vertices(G), y \in Vertices(G) :
          /\ G.adjMatrix[x][y] < 0
          /\ visited[x] /\ visited[y]
          /\ dist[x] + G.adjMatrix[x][y] < dist[y]

\* The elements of a sequence, and whether it holds none of them twice.
Range(seq) == {seq[k] : k \in 1..Len(seq)}

NoDuplicates(seq) == \A a \in 1..Len(seq), b \in 1..Len(seq) : a # b => seq[a] # seq[b]

\* The vertices bfs has emitted so far, read back from the open result.
BfsEmitted == ParseIntList(result \o <<"]">>)

\* C17: while bfs runs, the queue never holds a vertex twice, the vertices
\* marked visited are exactly those in the queue or already emitted, and no
\* emitted vertex is in the queue or emitted twice; every iteration emits
\* the vertex it dequeues and enqueues exactly the vertices it marks, each
\* once and each unmarked before.  So every vertex is enqueued at most once.
C17_BfsEnqueueOnce ==
    [][pc = "bfs" =>
          /\ NoDuplicates(work)
          /\ NoDuplicates(BfsEmitted)
          /\ Range(work) \cap Range(BfsEmitted) = {}
          /\ {v \in Vertices(G) : visited[v]} = Range(work) \cup Range(BfsEmitted)
          /\ work # <<>> =>
                LET added == SubSeq(work', Len(work), Len(work'))
                IN  /\ BfsEmitted' = Append(BfsEmitted, Head(work))
                    /\ work' = Tail(work) \o added
                    /\ NoDuplicates(added)
                    /\ Range(added) = {v \in Vertices(G) : visited'[v] /\ ~visited[v]}
                    /\ \A v \in Vertices(G) : visited[v] => visited'[v]]_vars

\* bfs on a 3-vertex graph with the cycle 0 -> 1 -> 2 -> 0 and the edge
\* 0 -> 2: 0 was emitted, 1 and 2 wait in the queue, and 2 is a neighbor of
\* the vertex about to be dequeued.
C17_Witness ==
    /\ pc = "bfs"
    /\ G.n = 3
    /\ G.adjMatrix[0][1] # 0 /\ G.adjMatrix[0][2] # 0
    /\ G.adjMatrix[1][2] # 0 /\ G.adjMatrix[2][0] # 0
    /\ BfsEmitted = <<0>>
    /\ work = <<1, 2>>

\* C18: bfs, dfs, dijkstra and primMST terminate on every graph and every
\* argument (cycles, self-loops, negative weights, out-of-range start): a
\* query whose loop has been entered always reaches its return with the
\* work list empty.
C18_Terminates ==
    (pc \in {"bfs", "dfs", "dijkstra", "primMST"}) ~>
        (pc = "done" /\ work = <<>> /\ heap = <<>>)

\* dijkstra(0) is about to pop a stale entry of the visited vertex 1 on a
\* graph with the negative edge 0 -> 2 and the cycle 0 -> 1 -> 0.
C18_Witness ==
    /\ pc = "dijkstra"
    /\ G.n = 3
    /\ G.adjMatrix[0][1] = 1 /\ G.adjMatrix[0][2] = -2
    /\ G.adjMatrix[2][1] = 1 /\ G.adjMatrix[1][0] # 0
    /\ heap # <<>>
    /\ visited[popTop(heap).vertex]

\* bfs runs on a graph with a self-loop at its start vertex.
C18_WitnessSelfLoop ==
    /\ pc = "bfs"
    /\ G.adjMatrix[start][start] # 0
    /\ work # <<>>

\* C19: in dijkstra and primMST on a graph with at least one vertex the
\* heap never holds more than n * n entries and no push is refused.
C19_HeapWithinCapacity ==
    (lastOp.op \in {"dijkstra", "primMST"} /\ G.n >= 1) =>
        /\ Len(heap) <= G.n * G.n
        /\ ~dropped

\* dijkstra on a 3-vertex graph with a negative weight holds two entries,
\* one of them a stale entry of vertex 1.
C19_Witness ==
    /\ pc = "dijkstra"
    /\ G.n = 3
    /\ \E x \in Vertices(G), y \in Vertices(G) : G.adjMatrix[x][y] < 0
    /\ Len(heap) = 2
    /\ heap[1].vertex = 1 /\ heap[2].vertex = 1

\* primMST on a 1-vertex graph pushed its first entry into a heap of
\* capacity 1.
C19_WitnessFull ==
    /\ pc = "primMST"
    /\ G.n = 1
    /\ Len(heap) = 1

\* C20: on every graph, the empty graph included, bfs, dfs, dijkstra and
\* primMST read and write the matrix and their working arrays only at
\* indices inside [0, vertexCount): no access outside an array has happened.
C20_IndicesInRange == ~oob

\* How often entry e occurs in seq.
Count(seq, e) == Cardinality({k \in 1..Len(seq) : seq[k] = e})

\* C21: after any sequence of push and pop calls in which no push went
\* beyond the capacity, pop() on a non-empty heap returns an entry it held
\* whose key is minimal among all entries held, and removes exactly that
\* one entry: every other entry is held as often as before.  pop() on an
\* empty heap returns the entry (-1, 999999) and leaves the heap empty.
C21_PopMinimum ==
    (lastOp.op = "pop" /\ ~dropped) =>
        LET before == lastOp.before
            ret == lastOp.ret
        IN  IF before = <<>>
            THEN ret = [vertex |-> -1, key |-> 999999] /\ heap = <<>>
            ELSE /\ ret \in Range(before)
                 /\ \A e \in Range(before) : ret.key <= e.key
                 /\ Len(heap) = Len(before) - 1
                 /\ \A e \in Range(before) :
                       Count(heap, e) = Count(before, e) - (IF e = ret THEN 1 ELSE 0)
                 /\ Range(heap) \subseteq Range(before)

\* pop() was just called on a full heap that held the minimal key twice,
\* for different vertices, and whose last entry had to sink below the root.
C21_Witness ==
    /\ lastOp.op = "pop"
    /\ ~dropped
    /\ Len(lastOp.before) = MaxHeap
    /\ \E a, b \in 1..MaxHeap :
          /\ lastOp.before[a].key = lastOp.ret.key
          /\ lastOp.before[b].key = lastOp.ret.key
          /\ lastOp.before[a].vertex # lastOp.before[b].vertex
    /\ lastOp.before[MaxHeap].key > lastOp.ret.key
    /\ heap[1] # lastOp.before[MaxHeap]

\* pop() was just called on an empty heap.
C21_WitnessEmpty ==
    /\ lastOp.op = "pop"
    /\ ~dropped
    /\ lastOp.before = <<>>

====
